---- MODULE Spec2Model ----
(***************************************************************************)
(* Model of backuprs (src/src/lib.rs): the BackupClient session around a   *)
(* MEGA account, the retention step (find_obsolete_nodes /                 *)
(* remove_obsolete_nodes), upload_file, and the run() pipeline.            *)
(*                                                                         *)
(* Text (file names, paths) is a sequence of one-character strings, so     *)
(* that str::contains and Path::file_name are computed, not assumed.       *)
(* Option<T> is a sequence of length <= 1: <<>> is None, <<x>> is Some(x). *)
(***************************************************************************)
EXTENDS Integers, Sequences, FiniteSets, TLC

(***************************************************************************)
(* Bounds of the model.                                                    *)
(***************************************************************************)
\* most regular backup archives the remote folder holds before a run
MaxRemoteBackups == 11
\* largest max_backups argument a direct caller passes to find_obsolete_nodes
MaxKeep == 2
\* most client calls in one direct-caller session
MaxCalls == 4
\* the literal argument of find_obsolete_nodes in run()
RunMaxBackups == 10

(***************************************************************************)
(* Text.                                                                   *)
(***************************************************************************)
S_backup == <<"b", "a", "c", "k", "u", "p">>
S_targz == <<".", "t", "a", "r", ".", "g", "z">>
S_zip == <<".", "z", "i", "p">>
S_notes == <<"n", "o", "t", "e", "s">>
S_Root == <<"R", "o", "o", "t">>
S_Backups == <<"B", "a", "c", "k", "u", "p", "s">>
S_slash == <<"/">>

\* str::contains(pat): pat occurs in s as a contiguous substring
Contains(s, pat) ==
    \E i \in 0..(Len(s) - Len(pat)) : SubSeq(s, i + 1, i + Len(pat)) = pat

\* Path::file_name: the final component of the path
FileName(p) ==
    LET cuts == {i \in 1..Len(p) : p[i] = "/"}
        last == IF cuts = {} THEN 0 ELSE CHOOSE i \in cuts : \A j \in cuts : j <= i
    IN  SubSeq(p, last + 1, Len(p))

\* format!("backup{}.tar.gz", today_date)
ArchiveName(date) == S_backup \o date \o S_targz

(***************************************************************************)
(* Remote nodes.  parent is a handle, NoParent for the root.               *)
(***************************************************************************)
NoParent == -1
RootHandle == 0
BackupsHandle == 1

Node(h, nm, k, par, t, d) ==
    [handle |-> h, name |-> nm, kind |-> k, parent |-> par, created_at |-> t, data |-> d]

RootNode == Node(RootHandle, S_Root, "Root", NoParent, 0, "")
BackupsNode == Node(BackupsHandle, S_Backups, "Folder", RootHandle, 0, "")

\* Nodes::get_node_by_path for a path given as its sequence of names
RECURSIVE Descend(_, _, _)
Descend(nodes, cur, names) ==
    IF names = <<>> THEN <<cur>>
    ELSE LET next == {n \in nodes : n.parent = cur.handle /\ n.name = Head(names)}
         IN  IF next = {} THEN <<>>
             ELSE Descend(nodes, CHOOSE n \in next : TRUE, Tail(names))

GetNodeByPath(nodes, names) ==
    LET roots == {n \in nodes : n.parent = NoParent /\ n.name = Head(names)}
    IN  IF names = <<>> \/ roots = {} THEN <<>>
        ELSE Descend(nodes, CHOOSE n \in roots : TRUE, Tail(names))

\* the client's backup_folder, "/Root/Backups"
BackupFolderPath == <<S_Root, S_Backups>>

(***************************************************************************)
(* find_obsolete_nodes, on the listing fetch_own_nodes returned.           *)
(***************************************************************************)
\* IsBackupNode without the test for the archive extension
IsBackupNode_NoExtension(node, backup_node) ==
    /\ node.parent = backup_node[1].handle
    /\ Contains(node.name, S_backup)

\* the filter closure of find_obsolete_nodes
IsBackupNode(node, backup_node) ==
    /\ node.parent = backup_node[1].handle
    /\ Contains(node.name, S_targz)
    /\ Contains(node.name, S_backup)

BackupNodes(listing, backup_node) ==
    SelectSeq(listing, LAMBDA node : IsBackupNode(node, backup_node))

\* InsertByKey with the comparison turned round: newest first
RECURSIVE InsertByKey_Descending(_, _)
InsertByKey_Descending(sorted, x) ==
    IF sorted = <<>> THEN <<x>>
    ELSE IF Head(sorted).created_at >= x.created_at
         THEN <<Head(sorted)>> \o InsertByKey_Descending(Tail(sorted), x)
         ELSE <<x>> \o sorted

\* insertion of x behind every element whose key is <= x's key
RECURSIVE InsertByKey(_, _)
InsertByKey(sorted, x) ==
    IF sorted = <<>> THEN <<x>>
    ELSE IF Head(sorted).created_at <= x.created_at
         THEN <<Head(sorted)>> \o InsertByKey(Tail(sorted), x)
         ELSE <<x>> \o sorted

\* Vec::sort_by_key(|x| x.created_at()): a stable sort
RECURSIVE SortByKey(_)
SortByKey(s) ==
    IF s = <<>> THEN <<>>
    ELSE InsertByKey(SortByKey(SubSeq(s, 1, Len(s) - 1)), s[Len(s)])

Take(s, n) == SubSeq(s, 1, n)

\* the value find_obsolete_nodes returns once the listing is fetched:
\* kind "Ok" with nodes = Some(vec) or None, or kind "Panic" (the expect on
\* an absent backup_node, evaluated for the first listed node)
FindObsoleteNodes(listing, backup_node, max_backups) ==
    IF backup_node = <<>> /\ listing # <<>>
    THEN [kind |-> "Panic", nodes |-> <<>>]
    ELSE LET backup_nodes == IF listing = <<>> THEN <<>>
                             ELSE BackupNodes(listing, backup_node)
         IN  IF Len(backup_nodes) > max_backups
             THEN [kind |-> "Ok",
                   nodes |-> <<Take(SortByKey(backup_nodes),
                                    Len(backup_nodes) - max_backups)>>]
             ELSE [kind |-> "Ok", nodes |-> <<>>]

\* find_obsolete_nodes(max_backups) from its first line: fetched is
\* Some(listing), or None when fetch_own_nodes failed (the `?`)
FindObsolete(fetched, backup_node, max_backups) ==
    IF fetched = <<>> THEN [kind |-> "FetchError", nodes |-> <<>>]
    ELSE FindObsoleteNodes(fetched[1], backup_node, max_backups)

(***************************************************************************)
(* upload_file.                                                            *)
(***************************************************************************)
\* IsSameFile with the folder's own parent where the folder's handle belongs
IsSameFile_ParentOfFolder(node, file_name, dest_folder_node) ==
    /\ node.name = file_name
    /\ node.kind = "File"
    /\ node.parent = dest_folder_node.parent

\* the filter closure of upload_file: a file of that name in the folder
IsSameFile(node, file_name, dest_folder_node) ==
    /\ node.name = file_name
    /\ node.kind = "File"
    /\ node.parent = dest_folder_node.handle

\* What upload_file(path) does on a client whose backup_node is given.
\* listing is Some(fetch_own_nodes' answer) or None when the fetch failed;
\* files is the local file system (path -> contents), open_ok and upload_ok
\* say whether File::open and upload_node succeed, h and t are the handle
\* and creation time the store gives a new node.
\* Result: ret, whether upload_node was called, and the node it stored.
UploadFile(path, backup_node, listing, files, open_ok, upload_ok, h, t) ==
    IF backup_node = <<>>
    THEN [ret |-> "Ok", called |-> FALSE, node |-> <<>>]
    ELSE IF listing = <<>>
    THEN [ret |-> "FetchError", called |-> FALSE, node |-> <<>>]
    ELSE LET dest_folder_node == backup_node[1]
             file_name == FileName(path)
             file_nodes == SelectSeq(listing[1],
                               LAMBDA node : IsSameFile(node, file_name, dest_folder_node))
         IN  IF Len(file_nodes) > 0
             THEN [ret |-> "MEGAFileExistsError", called |-> FALSE, node |-> <<>>]
             ELSE IF file_name \notin DOMAIN files \/ ~open_ok
             THEN [ret |-> "OpenError", called |-> FALSE, node |-> <<>>]
             ELSE IF ~upload_ok
             THEN [ret |-> "UploadError", called |-> TRUE, node |-> <<>>]
             ELSE [ret |-> "Ok", called |-> TRUE,
                   node |-> <<Node(h, file_name, "File", dest_folder_node.handle,
                                   t, files[file_name])>>]

(***************************************************************************)
(* remove_obsolete_nodes: delete_node on each node in order, `?` on the    *)
(* first failure.  fail_at is the index of the failing delete_node call,   *)
(* 0 when every call succeeds.                                             *)
(***************************************************************************)
\* the index of the first delete_node call that fails (0: none does), when
\* the transport fails the call at index chosen (0: never): a call also fails
\* without a session and on a node the store no longer holds
FirstFailure(obsolete_nodes, nodes, sess, chosen) ==
    LET bad == {i \in 1..Len(obsolete_nodes) :
                   sess # "active" \/ obsolete_nodes[i] \notin nodes \/ i = chosen}
    IN  IF bad = {} THEN 0 ELSE CHOOSE i \in bad : \A j \in bad : i <= j

\* DeletedPrefix with a loop that goes on past the failing call
DeletedPrefix_ContinuesAfterFailure(obsolete_nodes, fail_at) ==
    IF fail_at = 0 THEN obsolete_nodes
    ELSE SubSeq(obsolete_nodes, 1, fail_at - 1)
             \o SubSeq(obsolete_nodes, fail_at + 1, Len(obsolete_nodes))

DeletedPrefix(obsolete_nodes, fail_at) ==
    IF fail_at = 0 THEN obsolete_nodes ELSE SubSeq(obsolete_nodes, 1, fail_at - 1)

AttemptedPrefix(obsolete_nodes, fail_at) ==
    IF fail_at = 0 THEN obsolete_nodes ELSE SubSeq(obsolete_nodes, 1, fail_at)

\* RemoveObsoleteNodes with a loop that stops one node early
RemoveObsoleteNodes_SkipsLast(obsolete_nodes, fail_at) ==
    [ret |-> IF fail_at = 0 THEN "Ok" ELSE "DeleteError",
     deleted |-> IF fail_at = 0 THEN SubSeq(obsolete_nodes, 1, Len(obsolete_nodes) - 1)
                 ELSE DeletedPrefix(obsolete_nodes, fail_at),
     attempted |-> AttemptedPrefix(obsolete_nodes, fail_at)]

RemoveObsoleteNodes(obsolete_nodes, fail_at) ==
    [ret |-> IF fail_at = 0 THEN "Ok" ELSE "DeleteError",
     deleted |-> DeletedPrefix(obsolete_nodes, fail_at),
     attempted |-> AttemptedPrefix(obsolete_nodes, fail_at)]

Range(s) == {s[i] : i \in 1..Len(s)}

(***************************************************************************)
(* The answer of fetch_own_nodes.  Nodes iterates in hash order, so a      *)
(* listing is the store's nodes in an order the caller does not control:   *)
(* here by handle, ascending or descending.                                *)
(***************************************************************************)
RECURSIVE SeqByHandle(_)
SeqByHandle(nodes) ==
    IF nodes = {} THEN <<>>
    ELSE LET least == CHOOSE n \in nodes : \A m \in nodes : n.handle <= m.handle
         IN  <<least>> \o SeqByHandle(nodes \ {least})

Reverse(s) == [i \in 1..Len(s) |-> s[Len(s) + 1 - i]]

Listings(nodes) == {SeqByHandle(nodes), Reverse(SeqByHandle(nodes))}

\* the answers fetch_own_nodes can give: None when the call fails, and with a
\* session Some(listing)
FetchOwnNodes(sess, nodes) ==
    {<<>>} \cup (IF sess = "active" THEN {<<l>> : l \in Listings(nodes)} ELSE {})

MaxOf(S) == CHOOSE x \in S : \A y \in S : y <= x

\* the handle the store gives the next new node
NewHandle(nodes) == 1 + MaxOf({n.handle : n \in nodes})

(***************************************************************************)
(* State.                                                                  *)
(***************************************************************************)
VARIABLES
    remote,       \* the account's nodes
    now,          \* the store's clock, the created_at of a node stored now
    session,      \* the account's view of the client: "none", "active", "closed"
    backup_node,  \* BackupClient.backup_node
    dropTask,     \* the logout task Drop spawns: "none", "spawned", "ran", "cancelled"
    files,        \* the local file system: path -> contents
    file_name,    \* run(): the archive's file name
    pc,           \* run(): the statement it is at
    result,       \* run(): its return value, "none" until it returns
    err,          \* run(): the error `e` held by the upload failure branch
    obsolete,     \* run(): the nodes find_obsolete_nodes returned
    trace,        \* the calls made so far, in order
    last,         \* the last call of a direct caller, with what it saw
    ncalls        \* the number of calls of a direct caller

vars == <<remote, now, session, backup_node, dropTask, files, file_name, pc,
          result, err, obsolete, trace, last, ncalls>>

\* a call, with the handle it is about (0 when it is about none)
Ev(ev, arg) == [ev |-> ev, arg |-> arg]

Count(tr, ev) == Cardinality({i \in 1..Len(tr) : tr[i].ev = ev})
Indexes(tr, ev) == {i \in 1..Len(tr) : tr[i].ev = ev}

NoCall == [op |-> "none", path |-> <<>>, keep |-> 0, ret |-> "none",
           node |-> <<>>, listing |-> <<>>, before |-> {}, files |-> <<>>,
           found |-> <<>>, called |-> FALSE, again |-> FALSE,
           dirs |-> <<>>, ignore |-> <<>>, entries |-> <<>>]

(***************************************************************************)
(* The account before a run.                                               *)
(***************************************************************************)
DateChars == <<"a", "b", "c", "d", "e", "f", "g", "h", "i", "j", "k", "l", "m", "n", "o", "p">>
DateOf(i) == <<DateChars[i]>>
FreshDate == <<"z">>
OtherDate == <<"y">>

Patterns == {"asc", "desc", "tie"}

\* creation time of the i-th of n regular backups
TimeOf(i, n, pattern) ==
    CASE pattern = "asc" -> i
      [] pattern = "desc" -> n + 1 - i
      [] OTHER -> 1

RegularBackups(n, pattern) ==
    {Node(i + 1, ArchiveName(DateOf(i)), "File", BackupsHandle, TimeOf(i, n, pattern), "stored")
        : i \in 1..n}

\* nodes that are no backup archive of the folder, all older than any backup
OddInFolder(today) ==
    {Node(101, S_notes \o S_targz, "File", BackupsHandle, 0, "stored"),
     Node(102, S_backup \o S_zip, "File", BackupsHandle, 0, "stored"),
     Node(103, ArchiveName(today), "Folder", BackupsHandle, 0, "")}
OddOutside == {Node(104, ArchiveName(OtherDate), "File", RootHandle, 0, "stored")}

OddChoices(today) ==
    {{}, OddOutside, OddInFolder(today) \cup OddOutside}
    \cup {{o} : o \in OddInFolder(today)}


\* contents of local files: an archive left by an earlier run, the archive
\* this run builds, and an archive whose build stopped part-way
OldArchive == "old"
NewArchive == "new"
PartialArchive == "partial"

Without(f, p) == [q \in DOMAIN f \ {p} |-> f[q]]
With(f, p, d) == [q \in DOMAIN f \cup {p} |-> IF q = p THEN d ELSE f[q]]

Init ==
    \E has_folder \in BOOLEAN, n \in 0..MaxRemoteBackups, pattern \in Patterns,
       today \in {DateOf(1), FreshDate}, exists \in BOOLEAN, tick \in 0..1 :
    \E odd \in OddChoices(today) :
        /\ (~has_folder) => (n = 0 /\ odd \subseteq OddOutside)
        /\ (n < 2) => pattern = "asc"
        /\ remote = {RootNode} \cup (IF has_folder THEN {BackupsNode} ELSE {})
                       \cup RegularBackups(n, pattern) \cup odd
        /\ now = MaxOf({m.created_at : m \in RegularBackups(n, pattern)} \cup {1}) + tick
        /\ session = "none"
        /\ backup_node = <<>>
        /\ dropTask = "none"
        /\ file_name = ArchiveName(today)
        /\ files = IF exists THEN With(<<>>, ArchiveName(today), OldArchive) ELSE <<>>
        /\ pc = "settings"
        /\ result = "none"
        /\ err = "none"
        /\ obsolete = <<>>
        /\ trace = <<>>
        /\ last = NoCall
        /\ ncalls = 0

(***************************************************************************)
(* The MEGA client's logout, called through BackupClient::logout.          *)
(* A call that succeeds on an active session closes it; a failed call      *)
(* leaves the session as it was.                                           *)
(***************************************************************************)
AfterLogout(sess, ok) == IF sess = "active" /\ ok THEN "closed" ELSE sess

\* the calls try_logout adds to the trace; caller is "run.try_logout" for a
\* call written in run(), "drop.try_logout" for the task Drop spawned
TryLogoutCalls(caller) == <<Ev(caller, 0), Ev("mega.logout", 0)>>

(***************************************************************************)
(* run(): one action per statement that calls out.  A return after the     *)
(* client was constructed drops it, and Drop spawns the logout task.       *)
(***************************************************************************)
Return(r, client_built) ==
    /\ result' = r
    /\ pc' = "returned"
    /\ dropTask' = IF client_built THEN "spawned" ELSE dropTask

\* utils::read_auth_info(SETTINGS_FILE)?
RunReadSettings ==
    /\ pc = "settings"
    /\ \E ok \in BOOLEAN :
        IF ok THEN /\ pc' = "archive"
                   /\ UNCHANGED <<result, dropTask>>
        ELSE Return("SettingsError", FALSE)
    /\ UNCHANGED <<remote, now, session, backup_node, files, file_name, err,
                   obsolete, trace, last, ncalls>>

\* CreateTarball without the check that the file exists
CreateTarball_Overwrites(fs, name, outcome) ==
    CASE outcome = "exists_failed" -> [ret |-> "IoError", files |-> fs]
      [] outcome = "ok" -> [ret |-> "Ok", files |-> With(fs, name, NewArchive)]
      [] outcome = "partial" ->
             [ret |-> "IoError", files |-> With(fs, name, PartialArchive)]
      [] OTHER -> [ret |-> "IoError", files |-> fs]

\* what create_tarball_from_dirs leaves on disk and returns; outcome is how
\* far it gets: "exists_failed" (try_exists itself returns Err),
\* "create_failed" (File::create), "partial" (an error after the file was
\* created) or "ok"
CreateTarball(fs, name, outcome) ==
    IF outcome = "exists_failed" THEN [ret |-> "IoError", files |-> fs]
    ELSE IF name \in DOMAIN fs
    THEN [ret |-> "TarballExistsError", files |-> fs]
    ELSE CASE outcome = "ok" -> [ret |-> "Ok", files |-> With(fs, name, NewArchive)]
           [] outcome = "partial" ->
                  [ret |-> "IoError", files |-> With(fs, name, PartialArchive)]
           [] OTHER -> [ret |-> "IoError", files |-> fs]

\* how far a call of create_tarball_from_dirs may get
TarballOutcomes == {"ok", "exists_failed", "create_failed", "partial"}

\* create_tarball_from_dirs(dirs_to_backup, &file_name, Some(dirs_to_ignore))?
RunCreateTarball ==
    /\ pc = "archive"
    /\ \E outcome \in TarballOutcomes :
        LET r == CreateTarball(files, file_name, outcome)
        IN  /\ files' = r.files
            /\ trace' = IF r.files # files THEN Append(trace, Ev("fs.create", 0))
                        ELSE trace
            /\ IF r.ret = "Ok" THEN /\ pc' = "login"
                                    /\ UNCHANGED <<result, dropTask>>
               ELSE Return(r.ret, FALSE)
    /\ UNCHANGED <<remote, now, session, backup_node, file_name, err, obsolete,
                   last, ncalls>>

\* BackupClient::login: the MEGA login, then the fetch and the resolution
\* of the backup folder. login_ok and fetch_ok are the two calls' outcomes.
\* old is the backup_node the client holds, kept when login returns early.
Login(nodes, sess, old, login_ok, fetch_ok) ==
    IF ~login_ok THEN [ret |-> "LoginError", session |-> sess, node |-> old]
    ELSE IF ~fetch_ok
    THEN [ret |-> "LoginFetchError", session |-> "active", node |-> old]
    ELSE [ret |-> "Ok", session |-> "active",
          node |-> GetNodeByPath(nodes, BackupFolderPath)]

\* the trace's mark that BackupClient::login returned Ok(())
LoginReturned(ret) == IF ret = "Ok" THEN <<Ev("login.ok", 0)>> ELSE <<>>

\* RunLogin with the archive file removed when the login fails
RunLogin_RemovesArchive ==
    /\ pc = "login"
    /\ \E login_ok \in BOOLEAN, fetch_ok \in BOOLEAN :
        LET r == Login(remote, session, backup_node, login_ok, fetch_ok)
        IN  /\ session' = r.session
            /\ backup_node' = r.node
            /\ trace' = Append(trace, Ev("mega.login", 0)) \o LoginReturned(r.ret)
            /\ IF r.ret = "Ok" THEN /\ pc' = "upload"
                                    /\ UNCHANGED <<result, dropTask, files>>
               ELSE /\ Return(r.ret, TRUE)
                    /\ files' = Without(files, file_name)
    /\ UNCHANGED <<remote, now, file_name, err, obsolete, last, ncalls>>

\* let mut client = BackupClient::new(..); client.login(..).await?
RunLogin ==
    /\ pc = "login"
    /\ \E login_ok \in BOOLEAN, fetch_ok \in BOOLEAN :
        LET r == Login(remote, session, backup_node, login_ok, fetch_ok)
        IN  /\ session' = r.session
            /\ backup_node' = r.node
            /\ trace' = Append(trace, Ev("mega.login", 0)) \o LoginReturned(r.ret)
            /\ IF r.ret = "Ok" THEN /\ pc' = "upload"
                                    /\ UNCHANGED <<result, dropTask>>
               ELSE Return(r.ret, TRUE)
    /\ UNCHANGED <<remote, now, files, file_name, err, obsolete, last, ncalls>>

\* match client.upload_file(&file_name).await
RunUploadFile ==
    /\ pc = "upload"
    /\ \E fetched \in FetchOwnNodes(session, remote),
          open_ok \in BOOLEAN, upload_ok \in BOOLEAN :
        LET r == UploadFile(file_name, backup_node, fetched,
                            files, open_ok, upload_ok, NewHandle(remote), now)
        IN  /\ remote' = remote \cup Range(r.node)
            /\ trace' = IF r.called THEN Append(trace, Ev("mega.upload_node", 0))
                        ELSE trace
            /\ IF r.ret = "Ok" THEN pc' = "find" /\ err' = err
               ELSE pc' = "cleanup_logout" /\ err' = r.ret
    /\ UNCHANGED <<now, session, backup_node, dropTask, files, file_name, result,
                   obsolete, last, ncalls>>

\* Err(e) => client.try_logout().await
RunCleanupLogout ==
    /\ pc = "cleanup_logout"
    /\ \E ok \in BOOLEAN : session' = AfterLogout(session, ok)
    /\ trace' = trace \o TryLogoutCalls("run.try_logout")
    /\ pc' = "cleanup_remove"
    /\ UNCHANGED <<remote, now, backup_node, dropTask, files, file_name, result,
                   err, obsolete, last, ncalls>>

\* RemoveFile reporting success without removing the file
RemoveFile_KeepsFile(fs, name, ok) ==
    IF ok /\ name \in DOMAIN fs THEN [ret |-> "Ok", files |-> fs]
    ELSE [ret |-> "RemoveFileError", files |-> fs]

\* std::fs::remove_file(name): gone on success, an error otherwise
RemoveFile(fs, name, ok) ==
    IF ok /\ name \in DOMAIN fs THEN [ret |-> "Ok", files |-> Without(fs, name)]
    ELSE [ret |-> "RemoveFileError", files |-> fs]

\* what the upload failure branch returns with e in hand: remove_file(..)?
\* and then Err(e)
CleanupResult(removed, e) == IF removed = "Ok" THEN e ELSE removed

\* std::fs::remove_file(&file_name)?; return Err(e)
RunCleanupRemove ==
    /\ pc = "cleanup_remove"
    /\ \E ok \in BOOLEAN :
        LET r == RemoveFile(files, file_name, ok)
        IN  /\ files' = r.files
            /\ trace' = Append(trace, Ev("fs.remove_file", 0))
            /\ Return(CleanupResult(r.ret, err), TRUE)
    /\ UNCHANGED <<remote, now, session, backup_node, file_name, err, obsolete,
                   last, ncalls>>

\* let obsolete_nodes = client.find_obsolete_nodes(10).await?
RunFindObsolete ==
    /\ pc = "find"
    /\ \E fetched \in FetchOwnNodes(session, remote) :
        LET r == FindObsolete(fetched, backup_node, RunMaxBackups)
        IN  IF r.kind = "Ok"
            THEN /\ obsolete' = r.nodes
                 /\ pc' = IF r.nodes = <<>> THEN "logout" ELSE "remove"
                 /\ UNCHANGED <<result, dropTask>>
            ELSE Return(r.kind, TRUE) /\ obsolete' = obsolete
    /\ UNCHANGED <<remote, now, session, backup_node, files, file_name, err,
                   trace, last, ncalls>>

DeleteCalls(nodes) == [i \in 1..Len(nodes) |-> Ev("mega.delete_node", nodes[i].handle)]

\* if let Some(nodes) = obsolete_nodes { client.remove_obsolete_nodes(nodes).await? }
RunRemoveObsolete ==
    /\ pc = "remove"
    /\ \E chosen \in 0..Len(obsolete[1]) :
        LET r == RemoveObsoleteNodes(obsolete[1],
                                     FirstFailure(obsolete[1], remote, session, chosen))
        IN  /\ remote' = remote \ Range(r.deleted)
            /\ trace' = trace \o DeleteCalls(r.attempted)
            /\ IF r.ret = "Ok" THEN /\ pc' = "logout"
                                    /\ UNCHANGED <<result, dropTask>>
               ELSE Return(r.ret, TRUE)
    /\ UNCHANGED <<now, session, backup_node, files, file_name, err, obsolete,
                   last, ncalls>>

\* RunLogout with the call of try_logout left out
RunLogout_Skipped ==
    /\ pc = "logout"
    /\ pc' = "remove_archive"
    /\ UNCHANGED <<remote, now, session, backup_node, dropTask, files, file_name,
                   result, err, obsolete, trace, last, ncalls>>

\* client.try_logout().await
RunLogout ==
    /\ pc = "logout"
    /\ \E ok \in BOOLEAN : session' = AfterLogout(session, ok)
    /\ trace' = trace \o TryLogoutCalls("run.try_logout")
    /\ pc' = "remove_archive"
    /\ UNCHANGED <<remote, now, backup_node, dropTask, files, file_name, result,
                   err, obsolete, last, ncalls>>

\* std::fs::remove_file(file_name)?; Ok(())
RunRemoveArchive ==
    /\ pc = "remove_archive"
    /\ \E ok \in BOOLEAN :
        LET r == RemoveFile(files, file_name, ok)
        IN  /\ files' = r.files
            /\ trace' = Append(trace, Ev("fs.remove_file", 0))
            /\ Return(r.ret, TRUE)
    /\ UNCHANGED <<remote, now, session, backup_node, file_name, err, obsolete,
                   last, ncalls>>

(***************************************************************************)
(* After run()'s body returned: the task Drop spawned may run before       *)
(* #[tokio::main] shuts the runtime down, or be cancelled by the shutdown. *)
(***************************************************************************)
\* tokio::spawn(async move { this.try_logout().await })
DropTaskLogout ==
    /\ pc = "returned"
    /\ dropTask = "spawned"
    /\ \E ok \in BOOLEAN : session' = AfterLogout(session, ok)
    /\ trace' = trace \o TryLogoutCalls("drop.try_logout")
    /\ dropTask' = "ran"
    /\ UNCHANGED <<remote, now, backup_node, files, file_name, pc, result, err,
                   obsolete, last, ncalls>>

\* block_on returns and the runtime is dropped
RuntimeShutdown ==
    /\ pc = "returned"
    /\ pc' = "done"
    /\ dropTask' = IF dropTask = "spawned" THEN "cancelled" ELSE dropTask
    /\ UNCHANGED <<remote, now, session, backup_node, files, file_name, result,
                   err, obsolete, trace, last, ncalls>>

(***************************************************************************)
(* main(): the match on what run() returned.                               *)
(***************************************************************************)
\* Ok(()) => (), Err(e) => { log::error!(..); panic!(..) }; a panic raised
\* inside run() has the process panicking already
MainOutcome(r) == IF r = "Ok" THEN "exit_ok" ELSE "panicked"

\* match backuprs::run() { .. }
MainMatch ==
    /\ pc = "done"
    /\ pc' = MainOutcome(result)
    /\ UNCHANGED <<remote, now, session, backup_node, dropTask, files, file_name,
                   result, err, obsolete, trace, last, ncalls>>

Next ==
    \/ RunReadSettings
    \/ RunCreateTarball
    \/ RunLogin
    \/ RunUploadFile
    \/ RunCleanupLogout
    \/ RunCleanupRemove
    \/ RunFindObsolete
    \/ RunRemoveObsolete
    \/ RunLogout
    \/ RunRemoveArchive
    \/ DropTaskLogout
    \/ RuntimeShutdown
    \/ MainMatch

Spec == Init /\ [][Next]_vars

(***************************************************************************)
(* A direct caller of the client, as the tests of lib.rs are: it logs in,  *)
(* uploads, lists obsolete nodes, removes them and logs out, in any order. *)
(* `last` keeps the last call with what it was given and what it returned. *)
(***************************************************************************)
\* most regular backup archives in the folder before the caller starts
MaxClientBackups == 2

\* a path into a subdirectory of the working directory
InDir(name) == <<"d">> \o S_slash \o name

\* local files the caller may name: the archive in the working directory
\* and another file of the same name in a subdirectory
LocalChoices(name) ==
    {With(With(<<>>, name, NewArchive), InDir(name), "other"),
     With(<<>>, InDir(name), "other"),
     With(<<>>, name, NewArchive)}

ClientInit ==
    \E has_folder \in BOOLEAN, n \in 0..MaxClientBackups, pattern \in Patterns,
       today \in {DateOf(1), FreshDate} :
    \E odd \in {{}, OddInFolder(today) \cup OddOutside},
       fs \in LocalChoices(ArchiveName(today)) :
        /\ (~has_folder) => (n = 0 /\ odd = {})
        /\ (n < 2) => pattern = "asc"
        /\ remote = {RootNode} \cup (IF has_folder THEN {BackupsNode} ELSE {})
                       \cup RegularBackups(n, pattern) \cup odd
        /\ now = MaxOf({m.created_at : m \in RegularBackups(n, pattern)} \cup {1})
        /\ session = "none"
        /\ backup_node = <<>>
        /\ dropTask = "none"
        /\ file_name = ArchiveName(today)
        /\ files = fs
        /\ pc = "caller"
        /\ result = "none"
        /\ err = "none"
        /\ obsolete = <<>>
        /\ trace = <<>>
        /\ last = NoCall
        /\ ncalls = 0

\* client.login(..).await
CallLogin ==
    /\ pc = "caller" /\ ncalls < MaxCalls
    /\ \E login_ok \in BOOLEAN, fetch_ok \in BOOLEAN :
        LET r == Login(remote, session, backup_node, login_ok, fetch_ok)
        IN  /\ session' = r.session
            /\ backup_node' = r.node
            /\ last' = [NoCall EXCEPT !.op = "login", !.ret = r.ret,
                                      !.node = backup_node, !.before = remote]
    /\ ncalls' = ncalls + 1
    /\ UNCHANGED <<remote, now, dropTask, files, file_name, pc, result, err,
                   obsolete, trace>>

\* client.upload_file(path).await
CallUploadFile ==
    /\ pc = "caller" /\ ncalls < MaxCalls
    /\ \E path \in {file_name, InDir(file_name)},
          fetched \in FetchOwnNodes(session, remote),
          open_ok \in BOOLEAN, upload_ok \in BOOLEAN :
        LET r == UploadFile(path, backup_node, fetched, files, open_ok, upload_ok,
                            NewHandle(remote), now)
        IN  /\ remote' = remote \cup Range(r.node)
            /\ last' = [NoCall EXCEPT !.op = "upload_file", !.path = path,
                                      !.ret = r.ret, !.node = backup_node,
                                      !.listing = fetched, !.before = remote,
                                      !.files = files, !.called = r.called]
    /\ ncalls' = ncalls + 1
    /\ UNCHANGED <<now, session, backup_node, dropTask, files, file_name, pc,
                   result, err, obsolete, trace>>

\* the max_backups a removal is recorded with: that of the find whose result
\* it was given, when that find was the call before it (else none of 0..MaxKeep)
RemovalKeep(l) ==
    IF l.op = "find_obsolete_nodes" /\ l.ret = "Ok" THEN l.keep ELSE MaxKeep + 1

\* whether a find with max_backups comes right after the complete removal
\* of what a find with the same max_backups returned
FindsAgain(l, max_backups) ==
    l.op = "remove_obsolete_nodes" /\ l.ret = "Ok" /\ l.keep = max_backups

\* client.find_obsolete_nodes(max_backups).await
CallFindObsolete ==
    /\ pc = "caller" /\ ncalls < MaxCalls
    /\ \E max_backups \in 0..MaxKeep, fetched \in FetchOwnNodes(session, remote) :
        LET r == FindObsolete(fetched, backup_node, max_backups)
        IN  /\ obsolete' = IF r.kind = "Ok" THEN r.nodes ELSE obsolete
            /\ last' = [NoCall EXCEPT !.op = "find_obsolete_nodes",
                                      !.keep = max_backups, !.ret = r.kind,
                                      !.node = backup_node, !.listing = fetched,
                                      !.before = remote, !.found = r.nodes,
                                      !.again = FindsAgain(last, max_backups)]
    /\ ncalls' = ncalls + 1
    /\ UNCHANGED <<remote, now, session, backup_node, dropTask, files, file_name,
                   pc, result, err, trace>>

\* client.remove_obsolete_nodes(nodes).await, on the nodes last found
CallRemoveObsolete ==
    /\ pc = "caller" /\ ncalls < MaxCalls
    /\ obsolete # <<>>
    /\ \E chosen \in 0..Len(obsolete[1]) :
        LET r == RemoveObsoleteNodes(obsolete[1],
                                     FirstFailure(obsolete[1], remote, session, chosen))
        IN  /\ remote' = remote \ Range(r.deleted)
            /\ last' = [NoCall EXCEPT !.op = "remove_obsolete_nodes", !.ret = r.ret,
                                      !.keep = RemovalKeep(last),
                                      !.node = backup_node, !.before = remote,
                                      !.found = obsolete]
    /\ ncalls' = ncalls + 1
    /\ UNCHANGED <<now, session, backup_node, dropTask, files, file_name, pc,
                   result, err, obsolete, trace>>

\* BackupClient::logout: the MEGA logout and its error, if any
Logout(sess, ok) ==
    [ret |-> IF ok THEN "Ok" ELSE "LogoutError", session |-> AfterLogout(sess, ok)]

\* client.logout().await
CallLogout ==
    /\ pc = "caller" /\ ncalls < MaxCalls
    /\ \E ok \in BOOLEAN :
        LET r == Logout(session, ok)
        IN  /\ session' = r.session
            /\ last' = [NoCall EXCEPT !.op = "logout", !.ret = r.ret,
                                      !.node = backup_node, !.before = remote]
    /\ ncalls' = ncalls + 1
    /\ UNCHANGED <<remote, now, backup_node, dropTask, files, file_name, pc,
                   result, err, obsolete, trace>>

ClientNext ==
    \/ CallLogin
    \/ CallUploadFile
    \/ CallFindObsolete
    \/ CallRemoveObsolete
    \/ CallLogout

SpecClient == ClientInit /\ [][ClientNext]_vars

(***************************************************************************)
(* The archive builder.  A local path is text with the separator the code  *)
(* writes ("\\"); a directory is there when a file lies below it.          *)
(***************************************************************************)
S_sep == <<"\\">>

\* the files of the file system that lie below directory dir
Under(paths, dir) ==
    {p \in paths : /\ Len(p) > Len(dir) + 1
                   /\ SubSeq(p, 1, Len(dir) + 1) = dir \o S_sep}

\* the index of the first separator of s, 0 when it has none
FirstSep(s) ==
    LET cuts == {i \in 1..Len(s) : <<s[i]>> = S_sep}
    IN  IF cuts = {} THEN 0 ELSE CHOOSE i \in cuts : \A j \in cuts : i <= j

\* DirEntry::file_name of the entry of dir that p lies in or is
EntryName(p, dir) ==
    LET rest == SubSeq(p, Len(dir) + 2, Len(p))
    IN  IF FirstSep(rest) = 0 THEN rest ELSE SubSeq(rest, 1, FirstSep(rest) - 1)

\* read_dir(dir): the names of the entries of dir, in the one order taken
\* here for the platform's
RECURSIVE InSomeOrder(_)
InSomeOrder(names) ==
    IF names = {} THEN <<>>
    ELSE LET name == CHOOSE n \in names : TRUE
         IN  <<name>> \o InSomeOrder(names \ {name})

ReadDir(paths, dir) == InSomeOrder({EntryName(p, dir) : p \in Under(paths, dir)})

\* node.metadata()?.is_dir()
IsDir(paths, node) == Under(paths, node) # {}

\* Pruned for a walk that ignores no folder
Pruned_Never(name, ignore_folders) == FALSE

\* if let Some(folders) = ignore_folders { if folders.contains(name) { continue } }
Pruned(name, ignore_folders) ==
    ignore_folders # <<>> /\ name \in ignore_folders[1]

\* get_dir_contents(dir, ignore_folders): the paths of the files below dir,
\* the folders named in ignore_folders skipped with all they hold
RECURSIVE GetDirContents(_, _, _)
RECURSIVE WalkEntries(_, _, _, _)
WalkEntries(paths, dir, names, ignore_folders) ==
    IF names = <<>> THEN <<>>
    ELSE LET node == dir \o S_sep \o Head(names)
             found == IF IsDir(paths, node)
                      THEN IF Pruned(Head(names), ignore_folders) THEN <<>>
                           ELSE GetDirContents(paths, node, ignore_folders)
                      ELSE <<node>>
         IN  found \o WalkEntries(paths, dir, Tail(names), ignore_folders)

GetDirContents(paths, dir, ignore_folders) ==
    WalkEntries(paths, dir, ReadDir(paths, dir), ignore_folders)

\* str::trim_start_matches(pat): pat removed from the start of s as many
\* times as it is there
RECURSIVE TrimStartMatches(_, _)
TrimStartMatches(s, pat) ==
    IF pat # <<>> /\ Len(s) >= Len(pat) /\ SubSeq(s, 1, Len(pat)) = pat
    THEN TrimStartMatches(SubSeq(s, Len(pat) + 1, Len(s)), pat)
    ELSE s

\* s.split("\\").last().unwrap(): what follows the last separator of s
SplitLast(s) ==
    LET cuts == {i \in 1..Len(s) : <<s[i]>> = S_sep}
        last_cut == IF cuts = {} THEN 0 ELSE CHOOSE i \in cuts : \A j \in cuts : j <= i
    IN  SubSeq(s, last_cut + 1, Len(s))

\* the path a file is given in the archive
RelativePath(dir_path, node_path) ==
    LET backup_abs_folder_path == dir_path \o S_sep
        backup_folder_name == SplitLast(dir_path)
    IN  backup_folder_name \o S_sep
            \o TrimStartMatches(node_path, backup_abs_folder_path)

\* the append_file calls made for one directory of dirs
DirEntries(paths, dir_path, ignore_folders) ==
    LET dir_contents == GetDirContents(paths, dir_path, ignore_folders)
    IN  [i \in 1..Len(dir_contents) |->
            [path |-> RelativePath(dir_path, dir_contents[i]),
             node |-> dir_contents[i], dir |-> dir_path]]

\* the append_file calls of create_tarball_from_dirs, in order
RECURSIVE TarballEntries(_, _, _)
TarballEntries(paths, dirs, ignore_folders) ==
    IF dirs = <<>> THEN <<>>
    ELSE DirEntries(paths, Head(dirs), ignore_folders)
             \o TarballEntries(paths, Tail(dirs), ignore_folders)

(***************************************************************************)
(* A caller of the builder, as the tests retrieve_dir_contents and         *)
(* create_tarball are: it walks a directory, builds an archive and removes *)
(* it, in any order.                                                       *)
(***************************************************************************)
\* most calls of such a caller
MaxBuilds == 2

\* the directories a caller backs up: one named by a relative path of one
\* component (as "src" in the tests), one inside another directory
RootA == <<"a">>
RootB == <<"r">> \o S_sep \o <<"b">>
DirChoices == {<<RootA>>, <<RootB>>, <<RootA, RootB>>}

\* the name a caller asks the walk to ignore
IgnoredName == <<"n">>
IgnoreChoices == {<<>>, <<{}>>, <<{IgnoredName}>>}

\* the files a backed-up directory may hold, by their path below it: at the
\* top and in folders one and two levels down, folders named as the ignored
\* name is and as the directory itself is, and a file named as the ignored
\* name is
TreeFiles ==
    {<<"f">>,
     <<"a">> \o S_sep \o <<"f">>,
     <<"a">> \o S_sep \o <<"a">> \o S_sep \o <<"f">>,
     <<"n">> \o S_sep \o <<"f">>,
     <<"a">> \o S_sep \o <<"n">> \o S_sep \o <<"f">>,
     <<"n">> \o S_sep \o <<"a">> \o S_sep \o <<"f">>,
     <<"a">> \o S_sep \o <<"a">> \o S_sep \o <<"n">>}

SourceFile == "source"

\* the file system holding tree below both directories
LocalTree(tree) ==
    [p \in {root \o S_sep \o f : root \in {RootA, RootB}, f \in tree} |-> SourceFile]

BuildInit ==
    \E tree \in SUBSET TreeFiles, today \in {DateOf(1)}, exists \in BOOLEAN :
        /\ tree # {}
        /\ file_name = ArchiveName(today)
        /\ files = IF exists THEN With(LocalTree(tree), ArchiveName(today), OldArchive)
                   ELSE LocalTree(tree)
        /\ remote = {RootNode}
        /\ now = 1
        /\ session = "none"
        /\ backup_node = <<>>
        /\ dropTask = "none"
        /\ pc = "builder"
        /\ result = "none"
        /\ err = "none"
        /\ obsolete = <<>>
        /\ trace = <<>>
        /\ last = NoCall
        /\ ncalls = 0

\* get_dir_contents(dir, &ignore_folders)
CallGetDirContents ==
    /\ pc = "builder" /\ ncalls < MaxBuilds
    /\ \E dir \in {RootA, RootB}, ignore_folders \in IgnoreChoices :
        last' = [NoCall EXCEPT !.op = "get_dir_contents", !.ret = "Ok",
                               !.dirs = <<dir>>, !.ignore = ignore_folders,
                               !.files = files,
                               !.found = GetDirContents(DOMAIN files, dir,
                                                        ignore_folders)]
    /\ ncalls' = ncalls + 1
    /\ UNCHANGED <<remote, now, session, backup_node, dropTask, files, file_name,
                   pc, result, err, obsolete, trace>>

\* create_tarball_from_dirs(dirs, file_name, ignore_folders)
CallCreateTarball ==
    /\ pc = "builder" /\ ncalls < MaxBuilds
    /\ \E dirs \in DirChoices, ignore_folders \in IgnoreChoices,
          outcome \in TarballOutcomes :
        LET r == CreateTarball(files, file_name, outcome)
        IN  /\ files' = r.files
            /\ last' = [NoCall EXCEPT
                            !.op = "create_tarball_from_dirs", !.ret = r.ret,
                            !.dirs = dirs, !.ignore = ignore_folders,
                            !.files = files, !.called = (outcome # "exists_failed"),
                            !.entries = IF r.ret = "Ok"
                                        THEN TarballEntries(DOMAIN files, dirs,
                                                            ignore_folders)
                                        ELSE <<>>]
    /\ ncalls' = ncalls + 1
    /\ UNCHANGED <<remote, now, session, backup_node, dropTask, file_name, pc,
                   result, err, obsolete, trace>>

\* std::fs::remove_file(file_name)
CallRemoveFile ==
    /\ pc = "builder" /\ ncalls < MaxBuilds
    /\ \E ok \in BOOLEAN :
        LET r == RemoveFile(files, file_name, ok)
        IN  /\ files' = r.files
            /\ last' = [NoCall EXCEPT !.op = "remove_file", !.ret = r.ret,
                                      !.files = files]
    /\ ncalls' = ncalls + 1
    /\ UNCHANGED <<remote, now, session, backup_node, dropTask, file_name, pc,
                   result, err, obsolete, trace>>

BuildNext ==
    \/ CallGetDirContents
    \/ CallCreateTarball
    \/ CallRemoveFile

SpecBuild == BuildInit /\ [][BuildNext]_vars

(***************************************************************************)
(* Two runs of run() on one account, each with its own client and session, *)
(* from the point where both have logged in: their upload_file,            *)
(* find_obsolete_nodes and delete_node calls on the store interleave in    *)
(* any order.  Here pc, result, obsolete and file_name hold one value per  *)
(* run; obsolete[r] is what run r has still to delete.  The other steps of *)
(* run() do not touch the store.                                           *)
(***************************************************************************)
Runs == {1, 2}

\* mega_client.delete_node(&node): the node is gone on success; the call
\* fails without a session and on a node the store no longer holds
DeleteNode(nodes, node, sess, ok) ==
    IF sess = "active" /\ node \in nodes /\ ok
    THEN [ret |-> "Ok", nodes |-> nodes \ {node}]
    ELSE [ret |-> "DeleteError", nodes |-> nodes]

\* the archive names of the two runs: built on the same day or not
RunNames == {[r \in Runs |-> ArchiveName(FreshDate)],
             [r \in Runs |-> IF r = 1 THEN ArchiveName(FreshDate)
                             ELSE ArchiveName(OtherDate)]}

RunsInit ==
    \E n \in RunMaxBackups..MaxRemoteBackups, pattern \in Patterns,
       names \in RunNames, tick \in 0..1 :
        /\ remote = {RootNode, BackupsNode} \cup RegularBackups(n, pattern)
        /\ now = MaxOf({m.created_at : m \in RegularBackups(n, pattern)}) + tick
        /\ session = "active"
        /\ backup_node = <<BackupsNode>>
        /\ dropTask = "none"
        /\ file_name = names
        /\ files = [p \in {names[r] : r \in Runs} |-> NewArchive]
        /\ pc = [r \in Runs |-> "upload"]
        /\ result = [r \in Runs |-> "none"]
        /\ err = "none"
        /\ obsolete = [r \in Runs |-> <<>>]
        /\ trace = <<>>
        /\ last = NoCall
        /\ ncalls = 0

\* run r ends with what it returns
RunEnds(r, ret) ==
    /\ pc' = [pc EXCEPT ![r] = "done"]
    /\ result' = [result EXCEPT ![r] = ret]

\* match client.upload_file(&file_name).await, the clock going on or not
StepUpload(r) ==
    /\ pc[r] = "upload"
    /\ \E fetched \in FetchOwnNodes(session, remote),
          open_ok \in BOOLEAN, upload_ok \in BOOLEAN, tick \in 0..1 :
        LET u == UploadFile(file_name[r], backup_node, fetched, files, open_ok,
                            upload_ok, NewHandle(remote), now)
        IN  /\ remote' = remote \cup Range(u.node)
            /\ now' = now + tick
            /\ IF u.ret = "Ok" THEN pc' = [pc EXCEPT ![r] = "find"] /\ result' = result
               ELSE RunEnds(r, u.ret)
    /\ UNCHANGED <<session, backup_node, dropTask, files, file_name, err, obsolete,
                   trace, last, ncalls>>

\* client.find_obsolete_nodes(10).await?
StepFind(r) ==
    /\ pc[r] = "find"
    /\ \E fetched \in FetchOwnNodes(session, remote) :
        LET f == FindObsolete(fetched, backup_node, RunMaxBackups)
        IN  IF f.kind = "Ok" /\ f.nodes # <<>>
            THEN /\ obsolete' = [obsolete EXCEPT ![r] = f.nodes[1]]
                 /\ pc' = [pc EXCEPT ![r] = "remove"]
                 /\ result' = result
            ELSE RunEnds(r, f.kind) /\ obsolete' = obsolete
    /\ UNCHANGED <<remote, now, session, backup_node, dropTask, files, file_name,
                   err, trace, last, ncalls>>

\* one turn of the loop of remove_obsolete_nodes:
\* self.mega_client.delete_node(&node).await?
StepDelete(r) ==
    /\ pc[r] = "remove"
    /\ \E ok \in BOOLEAN :
        LET node == Head(obsolete[r])
            d == DeleteNode(remote, node, session, ok)
        IN  /\ remote' = d.nodes
            /\ last' = [NoCall EXCEPT !.op = "delete_node", !.ret = d.ret,
                                      !.node = backup_node, !.before = remote,
                                      !.found = <<node>>]
            /\ IF d.ret # "Ok" THEN RunEnds(r, d.ret) /\ obsolete' = obsolete
               ELSE /\ obsolete' = [obsolete EXCEPT ![r] = Tail(obsolete[r])]
                    /\ IF Tail(obsolete[r]) = <<>> THEN RunEnds(r, "Ok")
                       ELSE UNCHANGED <<pc, result>>
    /\ UNCHANGED <<now, session, backup_node, dropTask, files, file_name, err,
                   trace, ncalls>>

RunsNext == \E r \in Runs : StepUpload(r) \/ StepFind(r) \/ StepDelete(r)

SpecRuns == RunsInit /\ [][RunsNext]_vars

(***************************************************************************)
(* Properties of run().                                                    *)
(***************************************************************************)
\* BackupClient::login returned Ok(()) in this run
LoginOk == Count(trace, "login.ok") > 0
\* run()'s body has returned
Returned == pc \in {"returned", "done"}
\* create_tarball_from_dirs returned Ok(()): run() goes on to the login
ArchiveBuilt == Count(trace, "mega.login") > 0
\* every call named first comes before every call named second
Before(tr, first, second) ==
    \A i \in Indexes(tr, first), j \in Indexes(tr, second) : i < j

\* C1: when the process ends, a session that logged in has had the remote
\* logout invoked exactly once, the explicit calls of run() and the task
\* spawned by Drop counted together.
C1_LogoutExactlyOnce ==
    (pc = "done" /\ LoginOk) => Count(trace, "mega.logout") = 1

\* C2: when run() returns Ok it has made exactly one explicit logout call and
\* exactly one deletion of the archive file, the logout before the deletion,
\* and the archive file is gone.
C2_SuccessLogoutThenDelete ==
    result = "Ok" =>
        /\ Count(trace, "run.try_logout") = 1
        /\ Count(trace, "fs.remove_file") = 1
        /\ Before(trace, "run.try_logout", "fs.remove_file")
        /\ \A i \in Indexes(trace, "run.try_logout") : trace[i + 1].ev = "mega.logout"
        /\ file_name \notin DOMAIN files

C2_Witness ==
    /\ result = "Ok"
    /\ pc = "done"
    /\ Count(trace, "mega.upload_node") = 1
    /\ Count(trace, "mega.delete_node") > 0

\* C3: every return of run() after a successful login has made an explicit
\* logout call.
C3_ExplicitLogoutOnEveryExit ==
    (Returned /\ LoginOk) => Count(trace, "run.try_logout") >= 1

\* C4: when upload_file returned an error, run() makes one logout attempt,
\* then one deletion of the archive file, and returns the upload's error.
C4_UploadFailureCleanup ==
    (Returned /\ err # "none") =>
        /\ Count(trace, "run.try_logout") = 1
        /\ Count(trace, "fs.remove_file") = 1
        /\ Before(trace, "run.try_logout", "fs.remove_file")
        /\ result = err

\* C5 as claimed: once the archive was built, it is gone when run() has
\* returned, whatever the exit path.
C5_ArchiveGoneOnEveryExit ==
    (Returned /\ ArchiveBuilt) => file_name \notin DOMAIN files

\* C5 as amended: the archive is gone when run() returns Ok or returns the
\* upload's error; on a failed login and on a failed (or panicking) eviction
\* step run() returns without a deletion attempt and the archive is still
\* there.
C5_ArchiveGoneAmended ==
    (Returned /\ ArchiveBuilt) =>
        /\ (result = "Ok" \/ (err # "none" /\ result = err))
               => file_name \notin DOMAIN files
        /\ (err = "none" /\ result \in {"LoginError", "LoginFetchError", "FetchError",
                                       "DeleteError", "Panic"})
               => (Count(trace, "fs.remove_file") = 0 /\ file_name \in DOMAIN files)

C5_Witness ==
    /\ pc = "done"
    /\ err = "MEGAFileExistsError"
    /\ result = err
    /\ file_name \notin DOMAIN files

\* C10: every node run() deletes was returned by find_obsolete_nodes, and
\* every node find_obsolete_nodes returns is a child of the resolved backup
\* folder whose name contains "backup" and ".tar.gz".
C10_OnlyBackupArchivesDeleted ==
    /\ \A i \in Indexes(trace, "mega.delete_node") :
           /\ obsolete # <<>>
           /\ \E n \in Range(obsolete[1]) : n.handle = trace[i].arg
    /\ obsolete # <<>> =>
           /\ backup_node = <<BackupsNode>>
           /\ \A n \in Range(obsolete[1]) :
                  /\ n.parent = BackupsHandle
                  /\ Contains(n.name, S_backup)
                  /\ Contains(n.name, S_targz)

\* a deletion took place in an account that holds, older than every backup,
\* nodes of the folder lacking a token and a matching node outside it
C10_Witness ==
    /\ Count(trace, "mega.delete_node") > 0
    /\ \E n \in remote : n.parent = BackupsHandle /\ ~Contains(n.name, S_backup)
    /\ \E n \in remote : n.parent = BackupsHandle /\ ~Contains(n.name, S_targz)
    /\ \E n \in remote : n.parent # BackupsHandle /\ Contains(n.name, S_backup)
                            /\ Contains(n.name, S_targz)

(***************************************************************************)
(* Properties of the client's operations, on the last call of a caller.    *)
(***************************************************************************)
\* the last call was upload_file
Uploaded == last.op = "upload_file"
\* the store is as it was before the last call
StoreUnchanged == remote = last.before

\* C6: upload_file on a client without a backup folder node returns an error
\* and makes no upload call.
C6_NoDestinationIsAnError ==
    (Uploaded /\ last.node = <<>>) =>
        /\ last.ret # "Ok"
        /\ ~last.called
        /\ StoreUnchanged

\* C7: after upload_file(p) returned Ok on a logged-in session (one that
\* resolved its backup folder), the store holds a file named basename(p) in
\* the backup folder with the contents of the local file at p.
C7_UploadStoresTheFile ==
    (Uploaded /\ last.ret = "Ok" /\ session = "active" /\ last.node # <<>>) =>
        /\ last.path \in DOMAIN last.files
        /\ \E n \in remote :
               /\ n.name = FileName(last.path)
               /\ n.kind = "File"
               /\ n.parent = last.node[1].handle
               /\ n.data = last.files[last.path]

\* the nodes of the listing upload_file fetched that carry the uploaded
\* file's base name and are children of the destination folder
SameNameInFolder ==
    {n \in Range(last.listing[1]) :
        n.name = FileName(last.path) /\ n.parent = last.node[1].handle}

\* C8 as claimed: upload_file returns the duplicate-name error, without an
\* upload call and with the store unchanged, whenever the listing holds a
\* node of any kind with the same base name in the destination folder.
C8_DuplicateOfAnyKind ==
    (Uploaded /\ last.node # <<>> /\ last.listing # <<>> /\ SameNameInFolder # {}) =>
        /\ last.ret = "MEGAFileExistsError"
        /\ ~last.called
        /\ StoreUnchanged

\* C8 as amended: the same, whenever the listing holds a node of kind File
\* with the same base name in the destination folder.
C8_DuplicateFile ==
    (/\ Uploaded /\ last.node # <<>> /\ last.listing # <<>>
     /\ \E n \in SameNameInFolder : n.kind = "File") =>
        /\ last.ret = "MEGAFileExistsError"
        /\ ~last.called
        /\ StoreUnchanged

C8_Witness ==
    /\ Uploaded
    /\ last.ret = "MEGAFileExistsError"
    /\ last.path # FileName(last.path)
    /\ \E n \in SameNameInFolder : n.kind = "File"
    /\ ~last.called

\* the nodes of the store that are backup archives of the caller's folder
Matching ==
    {n \in last.before : /\ n.parent = last.node[1].handle
                         /\ Contains(n.name, S_backup)
                         /\ Contains(n.name, S_targz)}
\* the sequence find_obsolete_nodes returned, empty for None
Found == IF last.found = <<>> THEN <<>> ELSE last.found[1]
Max0(x) == IF x > 0 THEN x ELSE 0

\* C9: find_obsolete_nodes(max_keep) returns max(0, N - max_keep) distinct
\* matching nodes, in ascending order of creation time, none of them created
\* later than a matching node it does not return; nothing (None) when
\* N <= max_keep, and every matching node when max_keep = 0.
C9_OldestBeyondMaxKeep ==
    (last.op = "find_obsolete_nodes" /\ last.ret = "Ok") =>
        /\ Len(Found) = Max0(Cardinality(Matching) - last.keep)
        /\ Range(Found) \subseteq Matching
        /\ Cardinality(Range(Found)) = Len(Found)
        /\ \A i, j \in 1..Len(Found) :
               i < j => Found[i].created_at <= Found[j].created_at
        /\ \A x \in Range(Found), y \in Matching \ Range(Found) :
               x.created_at <= y.created_at
        /\ Cardinality(Matching) <= last.keep => last.found = <<>>
        /\ last.keep = 0 => Range(Found) = Matching

\* two nodes returned, of different ages, one newer matching node kept
C9_Witness ==
    /\ last.op = "find_obsolete_nodes"
    /\ last.ret = "Ok"
    /\ last.keep = 1
    /\ Len(Found) = 2
    /\ Found[1].created_at < Found[2].created_at
    /\ \E y \in Matching \ Range(Found) : y.created_at > Found[2].created_at

\* C11: a find_obsolete_nodes(k) that comes right after the complete removal
\* of what find_obsolete_nodes(k) returned finds nothing obsolete.
C11_EvictionFixpoint ==
    (last.op = "find_obsolete_nodes" /\ last.again /\ last.ret = "Ok") =>
        last.found = <<>>

\* the second find, after a removal that deleted two nodes and kept one
C11_Witness ==
    /\ last.op = "find_obsolete_nodes"
    /\ last.again
    /\ last.ret = "Ok"
    /\ last.keep = 1
    /\ Cardinality(Matching) = 1
    /\ Len(obsolete) = 0


\* C12: find_obsolete_nodes on a client without a backup folder node, given
\* any listing of the account, returns an error: it neither succeeds nor
\* panics.
C12_FindWithoutFolderIsAnError ==
    (/\ last.op = "find_obsolete_nodes"
     /\ last.node = <<>>
     /\ last.listing # <<>>) => last.ret \notin {"Ok", "Panic"}


\* the handles run() passed to delete_node, in call order
DeletedHandles ==
    LET calls == SelectSeq(trace, LAMBDA e : e.ev = "mega.delete_node")
    IN  [i \in 1..Len(calls) |-> calls[i].arg]

\* C13: when remove_obsolete_nodes fails, delete_node was called on the nodes
\* in their order up to the failing one and on none after it, the error is what
\* run() returns, every node before the failing one is gone from the store,
\* and the failing node and every node after it are still there.
C13_RemovalStopsAtFirstFailure ==
    result = "DeleteError" =>
        LET nodes == obsolete[1]
            fail_at == Len(DeletedHandles)
        IN  /\ fail_at \in 1..Len(nodes)
            /\ \A i \in 1..fail_at : DeletedHandles[i] = nodes[i].handle
            /\ \A i \in 1..(fail_at - 1) : nodes[i] \notin remote
            /\ \A i \in fail_at..Len(nodes) : nodes[i] \in remote

\* the second of three deletions failed
C13_Witness ==
    /\ result = "DeleteError"
    /\ Len(obsolete[1]) = 3
    /\ Len(DeletedHandles) = 2


\* C14: when run() returns the error of a failed login, the archive file it
\* built is still there, no deletion of it was attempted, and neither
\* upload_node nor delete_node was called.
C14_LoginFailureTouchesNothing ==
    result \in {"LoginError", "LoginFetchError"} =>
        /\ file_name \in DOMAIN files
        /\ Count(trace, "fs.remove_file") = 0
        /\ Count(trace, "mega.upload_node") = 0
        /\ Count(trace, "mega.delete_node") = 0

\* the process ended after a login that failed on an account with backups
C14_Witness ==
    /\ pc = "done"
    /\ result = "LoginError"
    /\ Count(trace, "mega.login") = 1
    /\ Cardinality(remote) > 2


\* the operations of a client other than login and logout
SessionCalls == {"upload_file", "find_obsolete_nodes", "remove_obsolete_nodes"}

\* C18: an operation called on a client after its logout went through, the
\* client having resolved its backup folder at login, is rejected, and the
\* client no longer holds the backup folder node.
C18_NoUseAfterLogout ==
    (session = "closed" /\ last.op \in SessionCalls /\ last.node # <<>>) =>
        (last.ret # "Ok" /\ backup_node = <<>>)


\* C20: what find_obsolete_nodes returns is what it returns for every listing
\* of the same nodes, whatever the order the listing has them in.
C20_FindIgnoresListingOrder ==
    (/\ last.op = "find_obsolete_nodes"
     /\ last.ret = "Ok"
     /\ last.listing # <<>>) =>
        \A listing \in Listings(last.before) :
            FindObsoleteNodes(listing, last.node, last.keep).nodes = last.found


\* the error kinds main() is to report without panicking
RecognizedErrors == {"TarballExistsError", "MEGAFileExistsError"}

\* C19: the process does not panic when run() returned an error of a
\* recognized kind.
C19_RecognizedErrorsDoNotPanic ==
    pc = "panicked" => result \notin RecognizedErrors


(***************************************************************************)
(* Properties of the archive builder, on the last call of a caller.        *)
(***************************************************************************)
\* the last call was create_tarball_from_dirs
Built == last.op = "create_tarball_from_dirs"

\* the archive path was there when the last call began
ArchiveWasThere == file_name \in DOMAIN last.files

RECURSIVE FolderNames(_)
FolderNames(rest) ==
    IF FirstSep(rest) = 0 THEN {}
    ELSE {SubSeq(rest, 1, FirstSep(rest) - 1)}
             \cup FolderNames(SubSeq(rest, FirstSep(rest) + 1, Len(rest)))

BelowDir(p, dir) == SubSeq(p, Len(dir) + 2, Len(p))

\* p lies in a folder, at some depth below dir, whose name is to be ignored
InIgnoredFolder(p, dir, ignore_folders) ==
    /\ ignore_folders # <<>>
    /\ FolderNames(BelowDir(p, dir)) \cap ignore_folders[1] # {}

\* how many entries of the archive have the path given
EntriesAt(entries, path) ==
    Cardinality({i \in 1..Len(entries) : entries[i].path = path})

\* C16: after a build, every file below a backed-up directory and in no
\* ignored folder is in the archive exactly once, under the directory's
\* name followed by the file's path below the directory.
C16_EveryFileOnceUnderItsPath ==
    (Built /\ last.ret = "Ok") =>
        \A i \in 1..Len(last.dirs) :
            \A p \in Under(DOMAIN last.files, last.dirs[i]) :
                ~InIgnoredFolder(p, last.dirs[i], last.ignore) =>
                    EntriesAt(last.entries,
                              SplitLast(last.dirs[i]) \o S_sep
                                  \o BelowDir(p, last.dirs[i])) = 1

\* C17: no file that get_dir_contents returns, and no file a build adds to
\* the archive, lies in a folder, at any depth below the directory walked,
\* whose name is in the ignore set.
C17_IgnoredFoldersArePruned ==
    /\ last.op = "get_dir_contents" =>
           \A i \in 1..Len(last.found) :
               ~InIgnoredFolder(last.found[i], last.dirs[1], last.ignore)
    /\ Built =>
           \A i \in 1..Len(last.entries) :
               ~InIgnoredFolder(last.entries[i].node, last.entries[i].dir,
                                last.ignore)

\* a build that ignored a name, of a directory holding that folder at the top
\* with a folder inside it and the same folder one level down, and files
\* elsewhere
C17_Witness ==
    /\ Built
    /\ last.ret = "Ok"
    /\ last.ignore = <<{IgnoredName}>>
    /\ RootA \o S_sep \o <<"n">> \o S_sep \o <<"a">> \o S_sep \o <<"f">>
           \in DOMAIN last.files
    /\ RootA \o S_sep \o <<"a">> \o S_sep \o <<"n">> \o S_sep \o <<"f">>
           \in DOMAIN last.files
    /\ last.dirs = <<RootA, RootB>>
    /\ Len(last.entries) = 4


(***************************************************************************)
(* Properties of a run's eviction step.                                    *)
(***************************************************************************)
\* upload_node was called in this run and returned Ok
UploadSucceeded == Count(trace, "mega.upload_node") = 1 /\ err = "none"

\* C22: once a run has uploaded its archive, the archive stays in the backup
\* folder through the run's eviction step and to the end of the run.
C22_UploadedArchiveIsKept ==
    UploadSucceeded => \E n \in remote : IsSameFile(n, file_name, BackupsNode)


\* C23: when the first login of a client returns an error, the account is
\* not left with an authenticated session.
C23_FailedLoginLeavesNoSession ==
    (last.op = "login" /\ ncalls = 1 /\ last.ret # "Ok") => session # "active"


\* the backup archives the folder holds among nodes
BackupsIn(nodes) == {n \in nodes : IsBackupNode(n, <<BackupsNode>>)}

\* node is one of the keep newest of the backup archives among nodes: fewer
\* than keep of the others are as new as it is or newer
AmongNewest(node, nodes, keep) ==
    Cardinality({n \in BackupsIn(nodes) \ {node} :
                    n.created_at >= node.created_at}) < keep

\* C21: while two runs interleave on a folder that held at least 10 backup
\* archives, the folder never holds fewer than 10, and no node is deleted
\* that was one of the 10 newest when its deletion was made.
C21_ConcurrentEvictionKeepsTen ==
    /\ Cardinality(BackupsIn(remote)) >= RunMaxBackups
    /\ (last.op = "delete_node" /\ last.ret = "Ok") =>
           ~AmongNewest(last.found[1], last.before, RunMaxBackups)

====
